---- MODULE Spec2Model ----
(***************************************************************************)
(* Model of the terminal stopwatch in src/src/main.rs: the App struct and  *)
(* its operations (new, add_lap, toggle_pause, reset, elapsed, scroll_up,  *)
(* scroll_down), the terminal set-up and restore sequence of main, and the *)
(* draw / poll / read loop of run_app.                                     *)
(*                                                                         *)
(* Instants are natural numbers (clock units); a Duration is a difference  *)
(* of two instants.  Option<usize> is a sequence of length at most one:    *)
(* <<>> is None and <<i>> is Some(i).                                      *)
(***************************************************************************)
EXTENDS Integers, Sequences, FiniteSets, TLC

\* Largest value the monotonic clock reaches in the model.
MaxTime == 3
\* Largest number of laps recorded between two resets in the model.
MaxLaps == 2
\* Largest hours component of the Durations formatted in the model.
MaxFormatHours == 1

VARIABLES
    now,        \* the value Instant::now() returns
    app,        \* the App struct owned by run_app
    pc,         \* position of main / run_app
    raw_mode,   \* terminal is in raw mode
    alt_screen, \* terminal shows the alternate screen
    res,        \* the io::Result run_app returned ("none" before it returns)
    ret,        \* the Result main returned ("none" before it returns)
    raw_was_enabled, \* history: enable_raw_mode() succeeded
    renders,    \* history: terminal.draw calls since the last poll
    event,      \* history: what poll/read delivered in this loop iteration
    last,       \* history: the last App operation, its instant, the App before it
    prev,       \* history: the App operation before that one
    active,     \* history: clock units spent running since new() or reset()
    lap_active, \* history: clock units spent running since the last lap
    lap_ideal,  \* history: (running time since previous lap, since start) at the last add_lap
    fmt         \* a Duration handed to format_duration and the text it returned

vars == <<now, app, pc, raw_mode, alt_screen, res, ret, raw_was_enabled,
          renders, event, last, prev, active, lap_active, lap_ideal, fmt>>

None == <<>>
Some(i) == <<i>>

\* Instant::duration_since saturates at zero when `earlier` is later than self.
duration_since(later, earlier) ==
    IF later >= earlier THEN later - earlier ELSE 0

\* App::new
new(t) ==
    [start_time |-> t, is_running |-> TRUE, laps |-> <<>>,
     last_lap |-> t, selected |-> None]

\* add_lap that leaves the selection as it was
add_lap_keeps_selection(a, t) ==
    LET lap_time == duration_since(t, a.last_lap)
        total_time == duration_since(t, a.start_time)
    IN  [a EXCEPT !.laps = Append(a.laps, <<lap_time, total_time>>),
                  !.last_lap = t]

\* add_lap that forgets to move last_lap to the lap instant
add_lap_no_stamp(a, t) ==
    LET lap_time == duration_since(t, a.last_lap)
        total_time == duration_since(t, a.start_time)
        pushed == Append(a.laps, <<lap_time, total_time>>)
    IN  [a EXCEPT !.laps = pushed,
                  !.selected = IF pushed # <<>> THEN Some(0) ELSE @]

\* App::add_lap
add_lap(a, t) ==
    LET lap_time == duration_since(t, a.last_lap)
        total_time == duration_since(t, a.start_time)
        pushed == Append(a.laps, <<lap_time, total_time>>)
    IN  [a EXCEPT !.laps = pushed,
                  !.last_lap = t,
                  !.selected = IF pushed # <<>> THEN Some(0) ELSE @]

\* toggle_pause whose resume does not move start_time forward
toggle_pause_no_shift(a, t) ==
    IF ~a.is_running
    THEN [a EXCEPT !.is_running = TRUE, !.last_lap = t]
    ELSE [a EXCEPT !.is_running = FALSE]

\* toggle_pause with the re-stamp of last_lap on resume left out
toggle_pause_no_restamp(a, t) ==
    IF ~a.is_running
    THEN [a EXCEPT !.is_running = TRUE,
                   !.start_time = @ + duration_since(t, a.last_lap)]
    ELSE [a EXCEPT !.is_running = FALSE]

\* App::toggle_pause
toggle_pause(a, t) ==
    IF ~a.is_running
    THEN LET paused_duration == duration_since(t, a.last_lap)
         IN  [a EXCEPT !.is_running = TRUE,
                       !.start_time = @ + paused_duration,
                       !.last_lap = t]
    ELSE [a EXCEPT !.is_running = FALSE]

\* reset that forgets to clear the selection
reset_keeps_selection(a, t) ==
    [a EXCEPT !.start_time = t, !.last_lap = t, !.is_running = TRUE,
              !.laps = <<>>]

\* reset that forgets to clear the lap list
reset_keeps_laps(a, t) ==
    [a EXCEPT !.start_time = t, !.last_lap = t, !.is_running = TRUE,
              !.selected = None]

\* App::reset
reset(a, t) ==
    [a EXCEPT !.start_time = t, !.last_lap = t, !.is_running = TRUE,
              !.laps = <<>>, !.selected = None]

\* App::elapsed
elapsed(a, t) ==
    IF a.is_running
    THEN duration_since(t, a.start_time)
    ELSE duration_since(a.last_lap, a.start_time)

\* scroll_up that stops at the top instead of wrapping
scroll_up_no_wrap(a) ==
    IF a.laps = <<>> THEN a
    ELSE [a EXCEPT !.selected =
            IF a.selected # None
            THEN (IF a.selected[1] = 0 THEN Some(0) ELSE Some(a.selected[1] - 1))
            ELSE Some(0)]

\* App::scroll_up
scroll_up(a) ==
    IF a.laps = <<>> THEN a
    ELSE [a EXCEPT !.selected =
            IF a.selected # None
            THEN (IF a.selected[1] = 0
                  THEN Some(Len(a.laps) - 1)
                  ELSE Some(a.selected[1] - 1))
            ELSE Some(0)]

\* scroll_down that also reverses the lap list into newest-first order
scroll_down_reverses_laps(a) ==
    IF a.laps = <<>> THEN a
    ELSE [a EXCEPT !.laps = [n \in 1..Len(a.laps) |-> a.laps[Len(a.laps) + 1 - n]],
                   !.selected =
                        IF a.selected # None
                        THEN (IF a.selected[1] >= Len(a.laps) - 1
                              THEN Some(0)
                              ELSE Some(a.selected[1] + 1))
                        ELSE Some(0)]

\* App::scroll_down
scroll_down(a) ==
    IF a.laps = <<>> THEN a
    ELSE [a EXCEPT !.selected =
            IF a.selected # None
            THEN (IF a.selected[1] >= Len(a.laps) - 1
                  THEN Some(0)
                  ELSE Some(a.selected[1] + 1))
            ELSE Some(0)]

\* The record kept about an App operation: its name, the instant it read,
\* and the App value it was applied to.
OpRec(name, t, a) == [op |-> name, at |-> t, pre |-> a]
NoOp == [op |-> "none", at |-> 0, pre |-> new(0)]
\* What is kept of the operation before the last one: its name, its instant
\* and the value elapsed() had immediately before it.
Before(r) == [op |-> r.op, at |-> r.at, before |-> elapsed(r.pre, r.at)]

(* format_duration.  A Duration is a whole number of milliseconds; the   *)
(* text is the record of the fields the format string prints: the branch  *)
(* taken, the hours and minutes fields, and the seconds field as its      *)
(* whole part, its fraction digits and the number of fraction digits.     *)

\* {:.N} of x/unit-th parts: round to the nearest multiple of unit.  The f64
\* nearest to an exact decimal half lies on either side of it, so the
\* direction of a half is an input (tie_up).
RoundTo(x, unit, tie_up) ==
    LET q == x \div unit
        r == x % unit
    IN  IF 2 * r > unit \/ (2 * r = unit /\ tie_up) THEN q + 1 ELSE q

\* The seconds field printed with 2 fraction digits.
Secs2(ms, tie_up) ==
    LET c == RoundTo(ms, 10, tie_up)
    IN  [whole |-> c \div 100, frac |-> c % 100, digits |-> 2]

\* The seconds field printed with 1 fraction digit.
Secs1(ms, tie_up) ==
    LET d == RoundTo(ms, 100, tie_up)
    IN  [whole |-> d \div 10, frac |-> d % 10, digits |-> 1]

\* format_duration
format_duration(ms, tie_up) ==
    IF ms < 60000
    THEN [branch |-> "s", hours |-> 0, minutes |-> 0,
          seconds |-> Secs2(ms, tie_up)]
    ELSE IF ms < 3600000
    THEN [branch |-> "m", hours |-> 0, minutes |-> ms \div 60000,
          seconds |-> Secs2(ms % 60000, tie_up)]
    ELSE LET remaining == ms % 3600000
         IN  [branch |-> "h", hours |-> ms \div 3600000,
              minutes |-> remaining \div 60000,
              seconds |-> Secs1(remaining % 60000, tie_up)]

\* No text has been produced yet.
NoText == [branch |-> "none", hours |-> 0, minutes |-> 0,
           seconds |-> [whole |-> 0, frac |-> 0, digits |-> 0]]

\* The Durations handed to format_duration: hours 0..MaxFormatHours,
\* minutes and seconds at the ends of their ranges, milliseconds around the
\* rounding points of both precisions.
FormatMinutes == {0, 1, 59}
FormatSeconds == {0, 59}
FormatMillis == {0, 4, 5, 6, 49, 50, 500, 949, 950, 994, 995, 999}
FormatInputs ==
    {((h * 60 + m) * 60 + sec) * 1000 + ms :
        h \in 0..MaxFormatHours, m \in FormatMinutes,
        sec \in FormatSeconds, ms \in FormatMillis}

\* An input event: Event::Key(KeyEvent { code, kind, .. }) or another Event.
KeyEv(code, kind) == [type |-> "Key", code |-> code, kind |-> kind]
\* A mouse or resize event (mouse capture is enabled by main).
MouseEv == [type |-> "Mouse", code |-> "", kind |-> ""]
\* event::poll returned Ok(false).
TimeoutEv == [type |-> "Timeout", code |-> "", kind |-> ""]
\* Nothing delivered yet in this iteration.
NoEvent == [type |-> "None", code |-> "", kind |-> ""]
\* The events the match in run_app falls through on: a key code without an
\* arm, a key event whose kind is not Press, an event that is not a key.
IgnoredEvents == {KeyEv("x", "Press"), KeyEv("p", "Release"), MouseEv}

Init ==
    /\ now = 0
    /\ app = new(0)
    /\ pc = "enable_raw"
    /\ raw_mode = FALSE
    /\ alt_screen = FALSE
    /\ res = "none"
    /\ ret = "none"
    /\ raw_was_enabled = FALSE
    /\ renders = 0
    /\ event = NoEvent
    /\ last = NoOp
    /\ prev = Before(NoOp)
    /\ active = 0
    /\ lap_active = 0
    /\ lap_ideal = <<0, 0>>
    /\ fmt = [ms |-> 0, tie_up |-> FALSE, out |-> NoText]

InLoop == pc \in {"draw", "poll", "read"}

term_vars == <<raw_mode, alt_screen, res, ret, raw_was_enabled>>
hist_vars == <<last, prev, active, lap_active, lap_ideal>>

\* The monotonic clock advances while the loop runs.
Tick ==
    /\ InLoop
    /\ now < MaxTime
    /\ now' = now + 1
    /\ active' = IF app.is_running THEN active + 1 ELSE active
    /\ lap_active' = IF app.is_running THEN lap_active + 1 ELSE lap_active
    /\ UNCHANGED <<event, fmt>>
    /\ UNCHANGED <<app, pc, term_vars, renders, last, prev, lap_ideal>>

(* main: terminal set-up *)

EnableRawOk ==
    /\ pc = "enable_raw"
    /\ raw_mode' = TRUE
    /\ raw_was_enabled' = TRUE
    /\ pc' = "enter_alt"
    /\ UNCHANGED <<event, fmt>>
    /\ UNCHANGED <<now, app, alt_screen, res, ret, renders, hist_vars>>

EnableRawErr ==
    /\ pc = "enable_raw"
    /\ pc' = "returned"
    /\ ret' = "Err"
    /\ UNCHANGED <<event, fmt>>
    /\ UNCHANGED <<now, app, raw_mode, alt_screen, res, raw_was_enabled,
                   renders, hist_vars>>

EnterAltOk ==
    /\ pc = "enter_alt"
    /\ alt_screen' = TRUE
    /\ pc' = "terminal_new"
    /\ UNCHANGED <<event, fmt>>
    /\ UNCHANGED <<now, app, raw_mode, res, ret, raw_was_enabled, renders,
                   hist_vars>>

\* execute! failed: the EnterAlternateScreen command may or may not have
\* reached the terminal before the error.
EnterAltErr ==
    /\ pc = "enter_alt"
    /\ alt_screen' \in BOOLEAN
    /\ pc' = "returned"
    /\ ret' = "Err"
    /\ UNCHANGED <<event, fmt>>
    /\ UNCHANGED <<now, app, raw_mode, res, raw_was_enabled, renders,
                   hist_vars>>

\* Terminal::new succeeded; App::new(); run_app is entered.
TerminalNewOk ==
    /\ pc = "terminal_new"
    /\ app' = new(now)
    /\ last' = OpRec("new", now, app)
    /\ prev' = Before(last)
    /\ active' = 0
    /\ lap_active' = 0
    /\ pc' = "draw"
    /\ UNCHANGED <<event, fmt>>
    /\ UNCHANGED <<now, term_vars, renders, lap_ideal>>

TerminalNewErr ==
    /\ pc = "terminal_new"
    /\ pc' = "returned"
    /\ ret' = "Err"
    /\ UNCHANGED <<event, fmt>>
    /\ UNCHANGED <<now, app, raw_mode, alt_screen, res, raw_was_enabled,
                   renders, hist_vars>>

(* run_app: the draw / poll / read loop *)

\* terminal.draw(|f| ui(f, &mut app)) succeeded.  ui reads the App
\* (elapsed, is_running, laps, selection) and changes none of the modelled
\* fields: the selection is always a valid index, so the list widget does
\* not clamp it.
Draw ==
    /\ pc = "draw"
    /\ renders' = renders + 1
    /\ pc' = "poll"
    /\ event' = NoEvent
    /\ UNCHANGED fmt
    /\ UNCHANGED <<now, app, term_vars, hist_vars>>

\* An error inside the loop leaves run_app through `?`.
DrawErr ==
    /\ pc = "draw"
    /\ res' = "Err"
    /\ pc' = "disable_raw"
    /\ UNCHANGED <<event, fmt>>
    /\ UNCHANGED <<now, app, raw_mode, alt_screen, ret, raw_was_enabled,
                   renders, hist_vars>>

\* A timeout that goes back to the poll without drawing
PollTimeout_skips_render ==
    /\ pc = "poll"
    /\ renders' = 0
    /\ pc' = "poll"
    /\ event' = TimeoutEv
    /\ UNCHANGED fmt
    /\ UNCHANGED <<now, app, term_vars, hist_vars>>

\* event::poll returned Ok(false): no event within 50ms.
PollTimeout ==
    /\ pc = "poll"
    /\ renders' = 0
    /\ pc' = "draw"
    /\ event' = TimeoutEv
    /\ UNCHANGED fmt
    /\ UNCHANGED <<now, app, term_vars, hist_vars>>

\* event::poll returned Ok(true).
PollReady ==
    /\ pc = "poll"
    /\ renders' = 0
    /\ pc' = "read"
    /\ UNCHANGED <<event, fmt>>
    /\ UNCHANGED <<now, app, term_vars, hist_vars>>

PollErr ==
    /\ pc = "poll"
    /\ res' = "Err"
    /\ pc' = "disable_raw"
    /\ UNCHANGED <<event, fmt>>
    /\ UNCHANGED <<now, app, raw_mode, alt_screen, ret, raw_was_enabled,
                   renders, hist_vars>>

ReadErr ==
    /\ pc = "read"
    /\ res' = "Err"
    /\ pc' = "disable_raw"
    /\ UNCHANGED <<event, fmt>>
    /\ UNCHANGED <<now, app, raw_mode, alt_screen, ret, raw_was_enabled,
                   renders, hist_vars>>

\* KeyCode::Char('q') | KeyCode::Esc => return Ok(())
KeyQuit ==
    /\ pc = "read"
    /\ res' = "Ok"
    /\ pc' = "disable_raw"
    /\ event' \in {KeyEv("q", "Press"), KeyEv("Esc", "Press")}
    /\ UNCHANGED fmt
    /\ UNCHANGED <<now, app, raw_mode, alt_screen, ret, raw_was_enabled,
                   renders, hist_vars>>

\* KeyCode::Char(' ') => app.add_lap()
KeyLap ==
    /\ pc = "read"
    /\ Len(app.laps) < MaxLaps
    /\ app' = add_lap(app, now)
    /\ last' = OpRec(IF app.is_running THEN "add_lap" ELSE "add_lap_paused",
                     now, app)
    /\ prev' = Before(last)
    /\ lap_ideal' = <<lap_active, active>>
    /\ lap_active' = 0
    /\ pc' = "draw"
    /\ event' = KeyEv(" ", "Press")
    /\ UNCHANGED fmt
    /\ UNCHANGED <<now, term_vars, renders, active>>

\* KeyCode::Char('p') => app.toggle_pause()
KeyPause ==
    /\ pc = "read"
    /\ app' = toggle_pause(app, now)
    /\ last' = OpRec(IF app.is_running THEN "pause" ELSE "resume", now, app)
    /\ prev' = Before(last)
    /\ pc' = "draw"
    /\ event' = KeyEv("p", "Press")
    /\ UNCHANGED fmt
    /\ UNCHANGED <<now, term_vars, renders, active, lap_active, lap_ideal>>

\* KeyCode::Char('r') => app.reset()
KeyReset ==
    /\ pc = "read"
    /\ app' = reset(app, now)
    /\ last' = OpRec("reset", now, app)
    /\ prev' = Before(last)
    /\ active' = 0
    /\ lap_active' = 0
    /\ pc' = "draw"
    /\ event' = KeyEv("r", "Press")
    /\ UNCHANGED fmt
    /\ UNCHANGED <<now, term_vars, renders, lap_ideal>>

\* KeyCode::Up => app.scroll_up()
KeyUp ==
    /\ pc = "read"
    /\ app' = scroll_up(app)
    /\ last' = OpRec("scroll_up", now, app)
    /\ prev' = Before(last)
    /\ pc' = "draw"
    /\ event' = KeyEv("Up", "Press")
    /\ UNCHANGED fmt
    /\ UNCHANGED <<now, term_vars, renders, active, lap_active, lap_ideal>>

\* KeyCode::Down => app.scroll_down()
KeyDown ==
    /\ pc = "read"
    /\ app' = scroll_down(app)
    /\ last' = OpRec("scroll_down", now, app)
    /\ prev' = Before(last)
    /\ pc' = "draw"
    /\ event' = KeyEv("Down", "Press")
    /\ UNCHANGED fmt
    /\ UNCHANGED <<now, term_vars, renders, active, lap_active, lap_ideal>>

\* The loop without the check of key.kind: the release of 'p' toggles too
OtherEvent_without_kind_check ==
    /\ pc = "read"
    /\ pc' = "draw"
    /\ event' \in IgnoredEvents
    /\ app' = IF event'.type = "Key" /\ event'.code = "p"
              THEN toggle_pause(app, now) ELSE app
    /\ UNCHANGED fmt
    /\ UNCHANGED <<now, term_vars, renders, hist_vars>>

\* Any other key code, a key event that is not a Press, or an event that
\* is not a key event (mouse, resize): nothing is called.
OtherEvent ==
    /\ pc = "read"
    /\ pc' = "draw"
    /\ event' \in IgnoredEvents
    /\ UNCHANGED fmt
    /\ UNCHANGED <<now, app, term_vars, renders, hist_vars>>

(* main: terminal restore *)

DisableRawOk ==
    /\ pc = "disable_raw"
    /\ raw_mode' = FALSE
    /\ pc' = "leave_alt"
    /\ UNCHANGED <<event, fmt>>
    /\ UNCHANGED <<now, app, alt_screen, res, ret, raw_was_enabled, renders,
                   hist_vars>>

DisableRawErr ==
    /\ pc = "disable_raw"
    /\ pc' = "returned"
    /\ ret' = "Err"
    /\ UNCHANGED <<event, fmt>>
    /\ UNCHANGED <<now, app, raw_mode, alt_screen, res, raw_was_enabled,
                   renders, hist_vars>>

LeaveAltOk ==
    /\ pc = "leave_alt"
    /\ alt_screen' = FALSE
    /\ pc' = "show_cursor"
    /\ UNCHANGED <<event, fmt>>
    /\ UNCHANGED <<now, app, raw_mode, res, ret, raw_was_enabled, renders,
                   hist_vars>>

\* execute! failed: the LeaveAlternateScreen command may or may not have
\* reached the terminal before the error.
LeaveAltErr ==
    /\ pc = "leave_alt"
    /\ alt_screen' \in BOOLEAN
    /\ pc' = "returned"
    /\ ret' = "Err"
    /\ UNCHANGED <<event, fmt>>
    /\ UNCHANGED <<now, app, raw_mode, res, raw_was_enabled, renders,
                   hist_vars>>

\* terminal.show_cursor() succeeded; an Err in res is printed; Ok(()).
ShowCursorOk ==
    /\ pc = "show_cursor"
    /\ pc' = "returned"
    /\ ret' = "Ok"
    /\ UNCHANGED <<event, fmt>>
    /\ UNCHANGED <<now, app, raw_mode, alt_screen, res, raw_was_enabled,
                   renders, hist_vars>>

ShowCursorErr ==
    /\ pc = "show_cursor"
    /\ pc' = "returned"
    /\ ret' = "Err"
    /\ UNCHANGED <<event, fmt>>
    /\ UNCHANGED <<now, app, raw_mode, alt_screen, res, raw_was_enabled,
                   renders, hist_vars>>

Next ==
    \/ Tick
    \/ EnableRawOk \/ EnableRawErr
    \/ EnterAltOk \/ EnterAltErr
    \/ TerminalNewOk \/ TerminalNewErr
    \/ Draw \/ DrawErr
    \/ PollTimeout \/ PollReady \/ PollErr
    \/ ReadErr \/ KeyQuit \/ KeyLap \/ KeyPause \/ KeyReset \/ KeyUp
    \/ KeyDown \/ OtherEvent
    \/ DisableRawOk \/ DisableRawErr
    \/ LeaveAltOk \/ LeaveAltErr
    \/ ShowCursorOk \/ ShowCursorErr

Spec == Init /\ [][Next]_vars

(* format_duration applied to a Duration drawn from FormatInputs *)

InitFormat ==
    /\ fmt \in [ms : FormatInputs, tie_up : BOOLEAN, out : {NoText}]
    /\ now = 0
    /\ app = new(0)
    /\ pc = "format"
    /\ raw_mode = FALSE
    /\ alt_screen = FALSE
    /\ res = "none"
    /\ ret = "none"
    /\ raw_was_enabled = FALSE
    /\ renders = 0
    /\ event = NoEvent
    /\ last = NoOp
    /\ prev = Before(NoOp)
    /\ active = 0
    /\ lap_active = 0
    /\ lap_ideal = <<0, 0>>

Format ==
    /\ pc = "format"
    /\ fmt.out = NoText
    /\ fmt' = [fmt EXCEPT !.out = format_duration(fmt.ms, fmt.tie_up)]
    /\ UNCHANGED <<now, app, pc, term_vars, renders, event, hist_vars>>

NextFormat == Format

SpecFormat == InitFormat /\ [][NextFormat]_vars

TypeOK ==
    /\ now \in 0..MaxTime
    /\ app.is_running \in BOOLEAN
    /\ Len(app.laps) <= MaxLaps
    /\ Len(app.selected) <= 1
    /\ pc \in {"enable_raw", "enter_alt", "terminal_new", "draw", "poll",
               "read", "disable_raw", "leave_alt", "show_cursor", "returned"}
    /\ res \in {"none", "Ok", "Err"}
    /\ ret \in {"none", "Ok", "Err"}

(* ---------------------------------------------------------------------- *)
(* Properties                                                              *)
(* ---------------------------------------------------------------------- *)

\* The App has been constructed (App::new has run).
Constructed == last.op # "none"

\* The lap recorded last.
LastLap == app.laps[Len(app.laps)]

\* Sum of the lap_time components of laps 1..n.
RECURSIVE SumLapTimes(_, _)
SumLapTimes(laps, n) ==
    IF n = 0 THEN 0 ELSE laps[n][1] + SumLapTimes(laps, n - 1)

\* C1 - Pause continuity: when a pause is immediately followed by a resume
\* at the same clock value, elapsed() right after the resume equals
\* elapsed() right before the pause.
C1_PauseContinuity ==
    (last.op = "resume" /\ prev.op = "pause" /\ last.at = prev.at)
        => elapsed(app, last.at) = prev.before

\* C2 - Elapsed time excludes paused intervals: elapsed() equals the clock
\* time spent in the running state since creation or the last reset.
C2_ElapsedIsRunningTime ==
    Constructed => elapsed(app, now) = active

\* C3 - Pausing freezes elapsed time at the pause instant: elapsed() right
\* after the pausing toggle_pause() equals elapsed() right before it, i.e.
\* last_lap is current when is_running becomes false.
C3_PauseFreezesAtInstant ==
    last.op = "pause" =>
        /\ elapsed(app, last.at) = elapsed(last.pre, last.at)
        /\ app.last_lap = last.at

\* C4 - Frozen during pause: every step that starts and ends in the paused
\* state leaves the value of elapsed() unchanged.
C4_FrozenDuringPause ==
    [][(Constructed /\ ~app.is_running /\ ~app'.is_running)
          => elapsed(app', now') = elapsed(app, now)]_vars

\* C5 - Lap telescoping: the total_time of the n-th lap equals the sum of
\* the lap_time values of laps 1..n, for every n up to the number of laps.
C5_LapTelescoping ==
    \A n \in 1..Len(app.laps) :
        app.laps[n][2] = SumLapTimes(app.laps, n)

\* C5 witness: two laps with non-zero lap times, the second recorded after
\* a pause/resume cycle.
C5_Witness ==
    /\ Len(app.laps) >= 2
    /\ app.laps[1][1] > 0
    /\ app.laps[2][1] > 0
    /\ last.op = "add_lap"
    /\ prev.op = "resume"

\* C6 - Laps measure running time only: a lap recorded while running holds
\* (running time since the previous lap or start, running time since start).
C6_LapsMeasureRunningTime ==
    last.op = "add_lap" => LastLap = lap_ideal

\* C7 - reset() yields the creation state at the reset instant (so
\* elapsed() is zero there), and a second reset() at the same clock value
\* yields the same state as the first.
C7_ResetIsCreation ==
    /\ last.op = "reset" =>
          /\ app = new(last.at)
          /\ elapsed(app, last.at) = 0
    /\ (last.op = "reset" /\ prev.op = "reset" /\ prev.at = last.at) =>
          app = last.pre

\* C7 witness: two resets in a row at the same, non-initial clock value.
C7_Witness ==
    /\ last.op = "reset"
    /\ prev.op = "reset"
    /\ prev.at = last.at
    /\ last.at > 0

\* The selection scroll_up must produce from selection s over k >= 1 laps.
UpFrom(s, k) ==
    IF s = None THEN Some(0)
    ELSE IF s[1] = 0 THEN Some(k - 1) ELSE Some(s[1] - 1)

\* The selection scroll_down must produce from selection s over k >= 1 laps.
DownFrom(s, k) ==
    IF s = None THEN Some(0)
    ELSE IF s[1] = k - 1 THEN Some(0) ELSE Some(s[1] + 1)

\* C8 - Navigation wraparound: with k >= 1 laps scroll_up goes from index 0
\* to k-1 and otherwise to i-1, scroll_down from k-1 to 0 and otherwise to
\* i+1; from no selection both select index 0; with no laps both change
\* nothing and the selection stays None.  The no-selection case is also
\* evaluated on the current App with its selection cleared.
C8_NavigationWraparound ==
    LET k == Len(last.pre.laps)
        cleared == [app EXCEPT !.selected = None]
    IN  /\ (last.op = "scroll_up" /\ k >= 1) =>
              app.selected = UpFrom(last.pre.selected, k)
        /\ (last.op = "scroll_down" /\ k >= 1) =>
              app.selected = DownFrom(last.pre.selected, k)
        /\ (last.op \in {"scroll_up", "scroll_down"} /\ k = 0) =>
              (app = last.pre /\ app.selected = None)
        /\ app.laps # <<>> =>
              /\ scroll_up(cleared).selected = Some(0)
              /\ scroll_down(cleared).selected = Some(0)

\* C8 witness: scroll_up wrapped from index 0 to the last index of two or
\* more laps.
C8_Witness ==
    /\ last.op = "scroll_up"
    /\ Len(last.pre.laps) >= 2
    /\ last.pre.selected = Some(0)
    /\ app.selected = Some(Len(app.laps) - 1)

\* C9 - Non-negativity: start_time <= last_lap <= now in every state, so
\* elapsed() and every difference of instants taken by add_lap and by the
\* resuming toggle_pause is non-negative without saturation.
C9_NonNegative ==
    /\ app.start_time <= app.last_lap
    /\ app.last_lap <= now
    /\ elapsed(app, now) >= 0
    /\ elapsed(app, now) = IF app.is_running THEN now - app.start_time
                           ELSE app.last_lap - app.start_time
    /\ \A n \in 1..Len(app.laps) : app.laps[n][1] >= 0 /\ app.laps[n][2] >= 0
    /\ last.op \in {"add_lap", "add_lap_paused"} =>
          /\ last.at - last.pre.last_lap >= 0
          /\ last.at - last.pre.start_time >= 0
          /\ LastLap = <<last.at - last.pre.last_lap,
                         last.at - last.pre.start_time>>
    /\ last.op = "resume" =>
          /\ last.at - last.pre.last_lap >= 0
          /\ app.start_time =
                last.pre.start_time + (last.at - last.pre.last_lap)

\* C9 witness: a resume after a pause of non-zero length, with a lap
\* recorded before it.
C9_Witness ==
    /\ last.op = "resume"
    /\ last.at > last.pre.last_lap
    /\ app.laps # <<>>

\* C10 - Terminal restoration: once raw mode was enabled, main has disabled
\* raw mode and left the alternate screen whenever it has returned.
C10_TerminalRestored ==
    (pc = "returned" /\ raw_was_enabled) => (~raw_mode /\ ~alt_screen)

\* C11 - Exit status: main returns Ok (exit status 0) only when the loop
\* ended by a quit command; when draw, poll or read failed inside run_app
\* (res is Err), or a set-up step failed before run_app (res is still
\* "none"), main returns Err (non-zero exit status).
C11_ExitStatus ==
    pc = "returned" =>
        /\ res = "Err" => ret = "Err"
        /\ res = "none" => ret = "Err"
        /\ ret = "Ok" => res = "Ok"

\* The event is a key press with one of the given key codes.
Pressed(ev, codes) ==
    ev.type = "Key" /\ ev.kind = "Press" /\ ev.code \in codes

\* C12 - Input mapping: an event read by the loop triggers add_lap for ' ',
\* toggle_pause for 'p', reset for 'r', scroll_up for Up, scroll_down for
\* Down and the return of run_app with Ok for 'q' and Esc; any other event
\* (another key code, a key event that is not a Press, a non-key event) and
\* a poll timeout leave the App unchanged and continue the loop.
C12_InputMapping ==
    [][/\ (pc = "read" /\ event' # NoEvent) =>
            IF Pressed(event', {"q", "Esc"})
            THEN app' = app /\ pc' = "disable_raw" /\ res' = "Ok"
            ELSE /\ pc' = "draw"
                 /\ res' = "none"
                 /\ app' = IF Pressed(event', {" "}) THEN add_lap(app, now)
                           ELSE IF Pressed(event', {"p"})
                                THEN toggle_pause(app, now)
                           ELSE IF Pressed(event', {"r"}) THEN reset(app, now)
                           ELSE IF Pressed(event', {"Up"}) THEN scroll_up(app)
                           ELSE IF Pressed(event', {"Down"})
                                THEN scroll_down(app)
                           ELSE app
       /\ (pc = "poll" /\ event' = TimeoutEv) =>
            (app' = app /\ pc' = "draw" /\ res' = "none")
      ]_vars

\* C12 witness: the release of the 'p' key was read while the timer was
\* paused with a lap recorded, and the loop went on to the next draw.
C12_Witness ==
    /\ event = KeyEv("p", "Release")
    /\ pc = "draw"
    /\ ~app.is_running
    /\ app.laps # <<>>

\* C13 - Format 60-second boundary: the seconds field of the text never
\* displays as 60 in any branch, and a Duration of 59.999s is rendered by
\* the minutes branch as 1 minute 0 seconds.
C13_NoSixtySeconds ==
    fmt.out # NoText =>
        /\ fmt.out.seconds.whole < 60
        /\ fmt.ms = 59999 =>
              /\ fmt.out.branch = "m"
              /\ fmt.out.minutes = 1
              /\ fmt.out.seconds.whole = 0

\* The last operation was an add_lap, in the running or the paused state.
LastWasLap == last.op \in {"add_lap", "add_lap_paused"}

\* The last operation was a scroll_up or a scroll_down.
LastWasScroll == last.op \in {"scroll_up", "scroll_down"}

\* C14 - Lap while paused: the lap_time of a lap recorded in the paused
\* state holds only the running time since the previous lap (or start),
\* and none of the clock time spent paused.
C14_PausedLapExcludesPause ==
    last.op = "add_lap_paused" => LastLap[1] = lap_ideal[1]

\* C15 - add_lap step: it appends exactly the pair (now - last_lap,
\* now - start_time) to laps, keeps the earlier laps, start_time and
\* is_running, sets last_lap to now and selects index 0, in the running
\* and in the paused state.
C15_AddLapStep ==
    LastWasLap =>
        /\ app.laps = Append(last.pre.laps,
                             <<last.at - last.pre.last_lap,
                               last.at - last.pre.start_time>>)
        /\ app.start_time = last.pre.start_time
        /\ app.is_running = last.pre.is_running
        /\ app.last_lap = last.at
        /\ app.selected = Some(0)

\* C15 witness: a lap of non-zero length recorded in the paused state
\* after an earlier lap.
C15_Witness ==
    /\ last.op = "add_lap_paused"
    /\ last.pre.laps # <<>>
    /\ last.at > last.pre.last_lap

\* C16 - scroll_up and scroll_down change only the selection: laps,
\* start_time, last_lap and is_running are as before the call, and
\* elapsed() at the current clock value is what it would be without it.
C16_ScrollChangesSelectionOnly ==
    LastWasScroll =>
        /\ app.laps = last.pre.laps
        /\ app.start_time = last.pre.start_time
        /\ app.last_lap = last.pre.last_lap
        /\ app.is_running = last.pre.is_running
        /\ elapsed(app, now) = elapsed(last.pre, now)

\* C16 witness: scroll_down moved the selection over two different laps,
\* and the clock has advanced since.
C16_Witness ==
    /\ last.op = "scroll_down"
    /\ Len(app.laps) >= 2
    /\ app.laps[1] # app.laps[2]
    /\ app.selected # last.pre.selected
    /\ now > last.at

\* C17 - Render cadence: every poll is preceded by exactly one render
\* since the previous poll (or since the loop started), so each applied
\* command and each timeout is followed by one render before the next
\* poll; no render is pending when the loop is at its top.
C17_RenderCadence ==
    /\ pc = "poll" => renders = 1
    /\ pc \in {"draw", "read"} => renders = 0

\* C17 witness: the loop is about to poll again after a timeout iteration
\* that followed a resume, and has rendered once in between.
C17_Witness ==
    /\ pc = "poll"
    /\ renders = 1
    /\ last.op = "resume"
    /\ now > last.at

\* C18 - Selection validity: the selection is None exactly when laps is
\* empty, and a selected index is below the number of laps.
C18_SelectionValid ==
    /\ app.selected = None <=> app.laps = <<>>
    /\ app.selected # None =>
          (app.selected[1] >= 0 /\ app.selected[1] < Len(app.laps))

\* C18 witness: the last index of two or more laps is selected.
C18_Witness ==
    /\ Len(app.laps) >= 2
    /\ app.selected = Some(Len(app.laps) - 1)

\* The total_time of the lap recorded last, zero when there is none.
LastTotal == IF app.laps = <<>> THEN 0 ELSE LastLap[2]

\* C19 - Accounting invariant: last_lap - start_time equals the total_time
\* of the lap recorded last, or zero without laps; a resume moves both
\* instants forward by the same amount; and elapsed() in the paused state
\* is that total_time.
C19_Accounting ==
    /\ app.last_lap - app.start_time = LastTotal
    /\ last.op = "resume" =>
          /\ app.last_lap - app.start_time =
                last.pre.last_lap - last.pre.start_time
          /\ app.last_lap - last.pre.last_lap =
                app.start_time - last.pre.start_time
    /\ ~app.is_running => elapsed(app, now) = LastTotal

\* C19 witness: a resume moved start_time forward with a lap of non-zero
\* total_time recorded.
C19_Witness ==
    /\ last.op = "resume"
    /\ app.start_time > last.pre.start_time
    /\ app.laps # <<>>
    /\ LastTotal > 0

====
